---- MODULE Spec2Model ----
(***************************************************************************)
(* A model of the tekton-lsp protocol test harness: the seven entry points *)
(* check-tekton.py and test-{completion,hover,definition,formatting,       *)
(* codeactions,symbols}.py.                                                *)
(*                                                                         *)
(* Three state machines share this module:                                 *)
(*   SpecFramer   the wire codec: send_lsp_message / send_msg build a      *)
(*                frame, parse_lsp_responses scans a decoded buffer;       *)
(*   SpecRun      one harness process driving one subject process over    *)
(*                its stdin/stdout pipes, statement by statement;          *)
(*   SpecVerdict  the code after the capture: the lookup loop, the         *)
(*                validator and sys.exit.                                  *)
(*                                                                         *)
(* Text is modelled character by character: a Python str is a sequence of  *)
(* one-character atoms.  The atoms "CR" and "LF" are the characters \r and *)
(* \n, and "U00e9" is the character U+00E9, the one character of the model *)
(* whose UTF-8 encoding takes two bytes.                                   *)
(***************************************************************************)
EXTENDS Integers, Sequences, FiniteSets, TLC

VARIABLES
    \* ---- SpecFramer ----
    segs,       \* the segments the subject wrote, in order (history)
    raw,        \* the bytes on the subject's stdout
    output,     \* parse_lsp_responses: its argument, a decoded str
    pos,        \* parse_lsp_responses: pos
    messages,   \* parse_lsp_responses: messages
    fpc,        \* parse_lsp_responses: "scan" in the while loop, "done" returned
    returned,   \* what each call of parse_lsp_responses returned (history)
    \* ---- SpecRun: the harness ----
    script,     \* the entry point that runs
    hpc,        \* the statement of the script the harness is at (1-based)
    hstate,     \* "running", "captured" (the output is read: the rest of the
                \* script never touches the subject) or "raised"
    exc,        \* the unhandled exception that ended the script, or "none"
    sent,       \* the messages written to proc.stdin so far, in order
    wrote,      \* units of the message being written that are in the pipe
    stdinClosed,\* proc.stdin.close() was executed
    captured,   \* units of output proc.stdout.read() has taken so far
    \* ---- SpecRun: the pipes and the subject ----
    docSize,    \* check-tekton.py: the size of the file's didOpen, in units
    mode,       \* how this subject behaves
    alive,      \* the subject process has not exited
    stdoutOpen, \* the subject holds the write end of its stdout open
    inPipe,     \* stdin pipe: its unread units, TRUE for a message's last unit
    outPipe,    \* stdout pipe: the number of unread units
    received,   \* messages the subject has read completely
    replySize,  \* the size of each answer of the subject, in units
    owed,       \* units of output the subject has yet to write
    \* ---- SpecVerdict: the script after the capture (it reads messages) ----
    vpc,        \* "print", "lookup", "validate" or "exited"
    li,         \* the lookup loop: how many messages it has gone through
    resp,       \* the lookup's variables: <<completion_response>>,
                \* <<hover_tasks, hover_pipeline>>, ...; None until assigned
    exitCode,   \* the exit status of the script, -1 while it runs
    vexc        \* the unhandled exception that ended the script, or "none"

framerVars == <<segs, raw, output, pos, messages, fpc, returned>>
harnessVars == <<script, hpc, hstate, exc, sent, wrote, stdinClosed, captured>>
subjectVars == <<docSize, mode, replySize, alive, stdoutOpen, inPipe, outPipe, received, owed>>
runVars == <<harnessVars, subjectVars>>
verdictVars == <<vpc, li, resp, exitCode, vexc>>
vars == <<framerVars, runVars, verdictVars>>

(***************************************************************************)
(* Characters and Python str helpers                                       *)
(***************************************************************************)
CR == "CR"
LF == "LF"
EAcute == "U00e9"
QUOTE == "\""
BSLASH == "\\"

Min(a, b) == IF a < b THEN a ELSE b

\* Python's s[a:b] for 0 <= a, with both ends clamped to len(s).
Slice(s, a, b) == SubSeq(s, Min(a, Len(s)) + 1, Min(b, Len(s)))

\* Python's w in s for strs.
Contains(s, w) ==
    \E i \in 0..(Len(s) - Len(w)) : SubSeq(s, i + 1, i + Len(w)) = w

\* The number of bytes of c.encode(): UTF-8.
Utf8Width(c) == IF c = EAcute THEN 2 ELSE 1

\* len(s.encode()).  (Halving keeps the evaluation shallow on long texts.)
RECURSIVE Utf8Len(_)
Utf8Len(s) ==
    IF s = <<>> THEN 0
    ELSE IF Len(s) = 1 THEN Utf8Width(s[1])
    ELSE LET h == Len(s) \div 2
         IN  Utf8Len(SubSeq(s, 1, h)) + Utf8Len(SubSeq(s, h + 1, Len(s)))

Digits == <<"0", "1", "2", "3", "4", "5", "6", "7", "8", "9">>
IsDigit(c) == \E d \in 1..10 : Digits[d] = c
DigitVal(c) == (CHOOSE d \in 1..10 : Digits[d] = c) - 1

\* The f-string formatting of a non-negative int: its decimal digits.
RECURSIVE FormatInt(_)
FormatInt(n) ==
    IF n < 10 THEN <<Digits[n + 1]>>
    ELSE Append(FormatInt(n \div 10), Digits[(n % 10) + 1])

\* int(s) for a non-empty str of decimal digits.
RECURSIVE ParseInt(_)
ParseInt(ds) ==
    IF ds = <<>> THEN 0
    ELSE 10 * ParseInt(SubSeq(ds, 1, Len(ds) - 1)) + DigitVal(ds[Len(ds)])

(***************************************************************************)
(* JSON values.  A Python value is a tagged tuple:                         *)
(*   <<"null">>  <<"bool", b>>  <<"int", n>>  <<"str", chars>>             *)
(*   <<"list", <<v1, ...>>>>  <<"dict", <<<<k1, v1>>, ...>>>>              *)
(* A dict keeps its items in insertion order, as Python's does; its keys   *)
(* are strs (sequences of characters).                                     *)
(***************************************************************************)
None == <<"null">>
JBool(b) == <<"bool", b>>
JInt(n) == <<"int", n>>
JStr(s) == <<"str", s>>
JList(l) == <<"list", l>>
JDict(items) == <<"dict", items>>

IsNone(v) == v[1] = "null"
IsDict(v) == v[1] = "dict"
IsList(v) == v[1] = "list"
IsStr(v) == v[1] = "str"

\* key in d
HasKey(d, k) == \E i \in 1..Len(d[2]) : d[2][i][1] = k
\* d[key], for a key that is present
Item(d, k) == d[2][CHOOSE i \in 1..Len(d[2]) : d[2][i][1] = k][2]
\* d.get(key, default)
Get(d, k, default) == IF HasKey(d, k) THEN Item(d, k) ELSE default

\* d[k] = v: replaces the value of a present key in place, else appends.
SetItem(items, k, v) ==
    IF \E i \in 1..Len(items) : items[i][1] = k
    THEN [i \in 1..Len(items) |-> IF items[i][1] = k THEN <<k, v>> ELSE items[i]]
    ELSE Append(items, <<k, v>>)

\* Python truthiness: `if v`.
Truthy(v) ==
    CASE v[1] = "null" -> FALSE
      [] v[1] = "bool" -> v[2]
      [] v[1] = "int" -> v[2] # 0
      [] OTHER -> Len(v[2]) > 0

\* Python ==.  Dicts compare as mappings, whatever the order of their items.
RECURSIVE PyEq(_, _)
PyEq(a, b) ==
    IF a[1] # b[1] THEN FALSE
    ELSE CASE a[1] = "null" -> TRUE
           [] a[1] = "list" ->
                /\ Len(a[2]) = Len(b[2])
                /\ \A i \in 1..Len(a[2]) : PyEq(a[2][i], b[2][i])
           [] a[1] = "dict" ->
                /\ Len(a[2]) = Len(b[2])
                /\ \A i \in 1..Len(a[2]) :
                      /\ HasKey(b, a[2][i][1])
                      /\ PyEq(a[2][i][2], Item(b, a[2][i][1]))
           [] OTHER -> a[2] = b[2]

(***************************************************************************)
(* json.dumps(obj), with its defaults: ensure_ascii=True and the           *)
(* separators ", " and ": ".                                               *)
(***************************************************************************)
HexOfEAcute == <<"0", "0", "e", "9">>

\* An escaping that leaves a non-ASCII character as it is.
EscapeChar_utf8(c) ==
    CASE c = QUOTE -> <<BSLASH, QUOTE>>
      [] c = BSLASH -> <<BSLASH, BSLASH>>
      [] c = CR -> <<BSLASH, "r">>
      [] c = LF -> <<BSLASH, "n">>
      [] OTHER -> <<c>>

\* One character of a str inside a JSON string literal (ensure_ascii).
EscapeChar(c) ==
    CASE c = QUOTE -> <<BSLASH, QUOTE>>
      [] c = BSLASH -> <<BSLASH, BSLASH>>
      [] c = CR -> <<BSLASH, "r">>
      [] c = LF -> <<BSLASH, "n">>
      [] c = EAcute -> <<BSLASH, "u">> \o HexOfEAcute
      [] OTHER -> <<c>>

RECURSIVE EscapeStr(_)
EscapeStr(s) ==
    IF s = <<>> THEN <<>> ELSE EscapeChar(Head(s)) \o EscapeStr(Tail(s))

DumpsStr(s) == <<QUOTE>> \o EscapeStr(s) \o <<QUOTE>>

RECURSIVE dumps(_)
RECURSIVE DumpsElems(_)
RECURSIVE DumpsItems(_)

DumpsElems(l) ==
    IF l = <<>> THEN <<>>
    ELSE dumps(Head(l))
         \o (IF Len(l) > 1 THEN <<",", " ">> ELSE <<>>)
         \o DumpsElems(Tail(l))

DumpsItems(items) ==
    IF items = <<>> THEN <<>>
    ELSE DumpsStr(Head(items)[1]) \o <<":", " ">> \o dumps(Head(items)[2])
         \o (IF Len(items) > 1 THEN <<",", " ">> ELSE <<>>)
         \o DumpsItems(Tail(items))

dumps(v) ==
    CASE v[1] = "null" -> <<"n", "u", "l", "l">>
      [] v[1] = "bool" ->
            IF v[2] THEN <<"t", "r", "u", "e">> ELSE <<"f", "a", "l", "s", "e">>
      [] v[1] = "int" ->
            IF v[2] < 0 THEN <<"-">> \o FormatInt(0 - v[2]) ELSE FormatInt(v[2])
      [] v[1] = "str" -> DumpsStr(v[2])
      [] v[1] = "list" -> <<"[">> \o DumpsElems(v[2]) \o <<"]">>
      [] v[1] = "dict" -> <<"{">> \o DumpsItems(v[2]) \o <<"}">>

(***************************************************************************)
(* json.loads(s).  A scanner result is [ok, val, i]: whether a value was   *)
(* read, the value, and the 1-based index of the first character after it. *)
(* ok = FALSE is json.JSONDecodeError.                                     *)
(***************************************************************************)
Fail == [ok |-> FALSE, val |-> None, i |-> 0]
Ok(v, i) == [ok |-> TRUE, val |-> v, i |-> i]

IsWs(c) == c \in {" ", CR, LF, "TAB"}

RECURSIVE SkipWs(_, _)
SkipWs(s, i) == IF i <= Len(s) /\ IsWs(s[i]) THEN SkipWs(s, i + 1) ELSE i

\* s[i..] starts with the word w.
StartsAt(s, i, w) == i + Len(w) - 1 <= Len(s) /\ SubSeq(s, i, i + Len(w) - 1) = w

\* The index after the run of digits that starts at i.
RECURSIVE DigitsEnd(_, _)
DigitsEnd(s, i) == IF i <= Len(s) /\ IsDigit(s[i]) THEN DigitsEnd(s, i + 1) ELSE i

\* A JSON number without fraction or exponent: -?(0|[1-9][0-9]*).
ScanNumber(s, i) ==
    LET neg == i <= Len(s) /\ s[i] = "-"
        a == IF neg THEN i + 1 ELSE i
        b == IF a <= Len(s) /\ s[a] = "0" THEN a + 1 ELSE DigitsEnd(s, a)
    IN  IF b = a THEN Fail
        ELSE Ok(JInt(IF neg THEN 0 - ParseInt(SubSeq(s, a, b - 1))
                     ELSE ParseInt(SubSeq(s, a, b - 1))), b)

\* The body of a string literal from index i on, acc the characters so far.
\* strict=True: a raw control character inside a string is an error.
RECURSIVE ScanStrBody(_, _, _)
ScanStrBody(s, i, acc) ==
    IF i > Len(s) THEN Fail
    ELSE IF s[i] = QUOTE THEN Ok(JStr(acc), i + 1)
    ELSE IF s[i] \in {CR, LF, "TAB"} THEN Fail
    ELSE IF s[i] = BSLASH THEN
        IF i + 1 > Len(s) THEN Fail
        ELSE CASE s[i + 1] = QUOTE -> ScanStrBody(s, i + 2, Append(acc, QUOTE))
               [] s[i + 1] = BSLASH -> ScanStrBody(s, i + 2, Append(acc, BSLASH))
               [] s[i + 1] = "/" -> ScanStrBody(s, i + 2, Append(acc, "/"))
               [] s[i + 1] = "r" -> ScanStrBody(s, i + 2, Append(acc, CR))
               [] s[i + 1] = "n" -> ScanStrBody(s, i + 2, Append(acc, LF))
               [] s[i + 1] = "t" -> ScanStrBody(s, i + 2, Append(acc, "TAB"))
               [] s[i + 1] = "u" ->
                    IF StartsAt(s, i + 2, HexOfEAcute)
                    THEN ScanStrBody(s, i + 6, Append(acc, EAcute))
                    ELSE Fail
               [] OTHER -> Fail
    ELSE ScanStrBody(s, i + 1, Append(acc, s[i]))

RECURSIVE ScanValue(_, _)
RECURSIVE ScanElems(_, _, _)
RECURSIVE ScanItems(_, _, _)

\* After "[" or ",": the next element, then "," or "]".
ScanElems(s, i, acc) ==
    LET r == ScanValue(s, SkipWs(s, i))
        j == SkipWs(s, r.i)
    IN  IF ~r.ok \/ j > Len(s) THEN Fail
        ELSE IF s[j] = "," THEN ScanElems(s, j + 1, Append(acc, r.val))
        ELSE IF s[j] = "]" THEN Ok(JList(Append(acc, r.val)), j + 1)
        ELSE Fail

\* After "{" or ",": the next "key": value, then "," or "}".
ScanItems(s, i, acc) ==
    LET k == SkipWs(s, i)
        key == IF k <= Len(s) /\ s[k] = QUOTE THEN ScanStrBody(s, k + 1, <<>>) ELSE Fail
        c == SkipWs(s, key.i)
        r == IF key.ok /\ c <= Len(s) /\ s[c] = ":"
             THEN ScanValue(s, SkipWs(s, c + 1)) ELSE Fail
        j == SkipWs(s, r.i)
    IN  IF ~r.ok \/ j > Len(s) THEN Fail
        ELSE IF s[j] = "," THEN ScanItems(s, j + 1, SetItem(acc, key.val[2], r.val))
        ELSE IF s[j] = "}" THEN Ok(JDict(SetItem(acc, key.val[2], r.val)), j + 1)
        ELSE Fail

ScanValue(s, i) ==
    IF i > Len(s) THEN Fail
    ELSE CASE s[i] = QUOTE -> ScanStrBody(s, i + 1, <<>>)
           [] s[i] = "{" ->
                LET j == SkipWs(s, i + 1)
                IN  IF j <= Len(s) /\ s[j] = "}" THEN Ok(JDict(<<>>), j + 1)
                    ELSE ScanItems(s, i + 1, <<>>)
           [] s[i] = "[" ->
                LET j == SkipWs(s, i + 1)
                IN  IF j <= Len(s) /\ s[j] = "]" THEN Ok(JList(<<>>), j + 1)
                    ELSE ScanElems(s, i + 1, <<>>)
           [] StartsAt(s, i, <<"n", "u", "l", "l">>) -> Ok(None, i + 4)
           [] StartsAt(s, i, <<"t", "r", "u", "e">>) -> Ok(JBool(TRUE), i + 4)
           [] StartsAt(s, i, <<"f", "a", "l", "s", "e">>) -> Ok(JBool(FALSE), i + 5)
           [] s[i] = "-" \/ IsDigit(s[i]) -> ScanNumber(s, i)
           [] OTHER -> Fail

\* json.loads: one value, white space around it, and nothing else.
loads(s) ==
    LET r == ScanValue(s, SkipWs(s, 1))
    IN  IF r.ok /\ SkipWs(s, r.i) = Len(s) + 1 THEN r ELSE Fail

(***************************************************************************)
(* bytes <-> str.  A byte is an atom too: an ASCII character is its own    *)
(* byte, and U+00E9 is the two bytes "xC3" "xA9".                          *)
(***************************************************************************)
\* str.encode(): UTF-8.
RECURSIVE encode(_)
encode(s) ==
    IF s = <<>> THEN <<>>
    ELSE IF Len(s) = 1 THEN (IF s[1] = EAcute THEN <<"xC3", "xA9">> ELSE s)
    ELSE LET h == Len(s) \div 2
         IN  encode(SubSeq(s, 1, h)) \o encode(SubSeq(s, h + 1, Len(s)))

\* bytes.decode() is defined when the bytes are well-formed UTF-8; otherwise it
\* raises UnicodeDecodeError.
\* Every lead byte is followed by its continuation byte and every
\* continuation byte follows a lead byte.
Decodable(b) ==
    \A i \in 1..Len(b) :
        /\ b[i] = "xC3" => (i < Len(b) /\ b[i + 1] = "xA9")
        /\ b[i] = "xA9" => (i > 1 /\ b[i - 1] = "xC3")

\* Of decodable bytes: one character per byte that is no continuation byte.
IsCharStart(x) == x # "xA9"
decode(b) ==
    LET starts == SelectSeq(b, IsCharStart)
    IN  [i \in 1..Len(starts) |-> IF starts[i] = "xC3" THEN EAcute ELSE starts[i]]

(***************************************************************************)
(* The send side: send_lsp_message (the six scenario scripts) and send_msg *)
(* (check-tekton.py).                                                      *)
(***************************************************************************)

\* The literals of send_lsp_message and of the requests the scripts send.
S ==
    [ ContentLength |-> <<"C", "o", "n", "t", "e", "n", "t", "-", "L", "e", "n", "g", "t", "h", ":", " ">>,
      CRLFCRLF |-> <<CR, LF, CR, LF>>,
      jsonrpc |-> <<"j", "s", "o", "n", "r", "p", "c">>,
      version |-> <<"2", ".", "0">>,
      method |-> <<"m", "e", "t", "h", "o", "d">>,
      params |-> <<"p", "a", "r", "a", "m", "s">>,
      id |-> <<"i", "d">>,
      exit |-> <<"e", "x", "i", "t">>,
      shutdown |-> <<"s", "h", "u", "t", "d", "o", "w", "n">>,
      processId |-> <<"p", "r", "o", "c", "e", "s", "s", "I", "d">>,
      text |-> <<"t", "e", "x", "t">> ]

\* The keys the scripts read in what they receive.
K ==
    [ contents |-> <<"c", "o", "n", "t", "e", "n", "t", "s">>,
      value |-> <<"v", "a", "l", "u", "e">>,
      uri |-> <<"u", "r", "i">>,
      newText |-> <<"n", "e", "w", "T", "e", "x", "t">>,
      title |-> <<"t", "i", "t", "l", "e">>,
      kind |-> <<"k", "i", "n", "d">>,
      edit |-> <<"e", "d", "i", "t">>,
      label |-> <<"l", "a", "b", "e", "l">>,
      name |-> <<"n", "a", "m", "e">>,
      children |-> <<"c", "h", "i", "l", "d", "r", "e", "n">>,
      diagnostics |-> <<"d", "i", "a", "g", "n", "o", "s", "t", "i", "c", "s">>,
      range |-> <<"r", "a", "n", "g", "e">>,
      start |-> <<"s", "t", "a", "r", "t">>,
      line |-> <<"l", "i", "n", "e">>,
      message |-> <<"m", "e", "s", "s", "a", "g", "e">>,
      severity |-> <<"s", "e", "v", "e", "r", "i", "t", "y">>,
      result |-> <<"r", "e", "s", "u", "l", "t">> ]

\* The words the validators look for.
W ==
    [ tasks |-> <<"t", "a", "s", "k", "s">>,
      pipelinetask |-> <<"p", "i", "p", "e", "l", "i", "n", "e", "t", "a", "s", "k">>,
      pipeline |-> <<"p", "i", "p", "e", "l", "i", "n", "e">>,
      Pipeline |-> <<"P", "i", "p", "e", "l", "i", "n", "e">>,
      build_task_yaml |-> <<"b", "u", "i", "l", "d", "-", "t", "a", "s", "k", ".", "y", "a", "m", "l">>,
      apiVersion |-> <<"a", "p", "i", "V", "e", "r", "s", "i", "o", "n", ":">>,
      kind |-> <<"k", "i", "n", "d", ":">>,
      namespace |-> <<"n", "a", "m", "e", "s", "p", "a", "c", "e">>,
      labels |-> <<"l", "a", "b", "e", "l", "s">>,
      annotations |-> <<"a", "n", "n", "o", "t", "a", "t", "i", "o", "n", "s">>,
      spec |-> <<"s", "p", "e", "c">>,
      two |-> <<"(", "2", ")">>,
      build |-> <<"b", "u", "i", "l", "d">>,
      test |-> <<"t", "e", "s", "t">>,
      Remove |-> <<"R", "e", "m", "o", "v", "e">>,
      unknownField |-> <<"u", "n", "k", "n", "o", "w", "n", "F", "i", "e", "l", "d">>,
      publishDiagnostics |-> <<"t", "e", "x", "t", "D", "o", "c", "u", "m", "e", "n", "t", "/", "p", "u", "b", "l", "i", "s", "h", "D", "i", "a", "g", "n", "o", "s", "t", "i", "c", "s">> ]

\* Texts of the messages the subject is taken to send.
T ==
    [ doc_tasks |-> <<"T", "a", "s", "k", "s", " ", "o", "f", " ", "a", " ", "P", "i", "p", "e", "l", "i", "n", "e">>,
      doc_pipeline |-> <<"A", " ", "P", "i", "p", "e", "l", "i", "n", "e">>,
      other |-> <<"x">>,
      tasks_2 |-> <<"t", "a", "s", "k", "s", " ", "(", "2", ")">>,
      remove |-> <<"R", "e", "m", "o", "v", "e", " ", "u", "n", "k", "n", "o", "w", "n", "F", "i", "e", "l", "d">>,
      formatted |-> <<"a", "p", "i", "V", "e", "r", "s", "i", "o", "n", ":", " ", "v", "1", " ", "k", "i", "n", "d", ":", " ", "T", "a", "s", "k">>,
      configuration |-> <<"w", "o", "r", "k", "s", "p", "a", "c", "e", "/", "c", "o", "n", "f", "i", "g", "u", "r", "a", "t", "i", "o", "n">>,
      error |-> <<"e", "r", "r", "o", "r">>,
      m |-> <<"m">> ]

\* send_lsp_message, lines 6-10: the message dict.  params and msg_id are None
\* when the caller leaves them out.
BuildMessage(method, params, msg_id) ==
    LET m0 == <<<<S.jsonrpc, JStr(S.version)>>, <<S.method, JStr(method)>>>>
        m1 == IF ~IsNone(params) THEN SetItem(m0, S.params, params) ELSE m0
        m2 == IF ~IsNone(msg_id) THEN SetItem(m1, S.id, msg_id) ELSE m1
    IN  JDict(m2)

\* (mutant) the header states one less than len(content)
HeaderLength_short(content) == Len(content) - 1

\* The number the header states: len(content), a count of characters.
HeaderLength(content) == Len(content)

\* f"Content-Length: {len(content)}\r\n\r\n"
Header(content) == S.ContentLength \o FormatInt(HeaderLength(content)) \o S.CRLFCRLF

\* send_lsp_message, lines 12-14, and send_msg: the bytes written to proc.stdin.
Frame(message) ==
    LET content == dumps(message)
    IN  encode(Header(content) \o content)

(***************************************************************************)
(* parse_lsp_responses                                                     *)
(***************************************************************************)
\* pattern.match at the 1-based index i of s: 'Content-Length: (\d+)\r\n\r\n'.
\* d is the index after the digits; the match ends before d + 4.
MatchAt(s, i) ==
    LET d == DigitsEnd(s, i + Len(S.ContentLength))
    IN  /\ StartsAt(s, i, S.ContentLength)
        /\ d > i + Len(S.ContentLength)
        /\ StartsAt(s, d, S.CRLFCRLF)

\* re.search(pattern, s): the leftmost match, or found = FALSE for None.
\* group1 is match.group(1), end is match.end() (0-based, exclusive).
Search(s) ==
    IF \E i \in 1..Len(s) : MatchAt(s, i)
    THEN LET starts == {k \in 1..Len(s) : MatchAt(s, k)}
             i == CHOOSE k \in starts : \A j \in starts : k <= j
             d == DigitsEnd(s, i + Len(S.ContentLength))
         IN  [found |-> TRUE, group1 |-> SubSeq(s, i + Len(S.ContentLength), d - 1),
              end |-> d + 3]
    ELSE [found |-> FALSE, group1 |-> <<>>, end |-> 0]

\* An end of the region counted from the loop position instead of from the
\* end of the header.
JsonEnd_length(p, match) == p + ParseInt(match.group1)

\* Lines 15-17 of one loop iteration: where the payload region lies.
JsonStart(p, match) == p + match.end
JsonEnd(p, match) == JsonStart(p, match) + ParseInt(match.group1)

\* One iteration of the while loop, lines 10-25 of check-tekton.py (lines 21-33
\* of the scenario scripts), as a function of the loop's state:
\* [brk, messages, pos], brk for the break at "if not match".
LoopBody(out, p, msgs) ==
    LET match == Search(Slice(out, p, Len(out)))
        json_start == JsonStart(p, match)
        json_end == JsonEnd(p, match)
        r == loads(Slice(out, json_start, json_end))
    IN  IF ~match.found THEN [brk |-> TRUE, messages |-> msgs, pos |-> p]
        ELSE [brk |-> FALSE,
              messages |-> IF r.ok THEN Append(msgs, r.val) ELSE msgs,
              pos |-> json_end]

(***************************************************************************)
(* The subject's side of the wire (spec section 6): a frame states the     *)
(* number of BYTES of its payload, and the payload is compact JSON in raw  *)
(* UTF-8.                                                                  *)
(***************************************************************************)
RawEscapeChar(c) ==
    CASE c = QUOTE -> <<BSLASH, QUOTE>>
      [] c = BSLASH -> <<BSLASH, BSLASH>>
      [] c = CR -> <<BSLASH, "r">>
      [] c = LF -> <<BSLASH, "n">>
      [] OTHER -> <<c>>

RECURSIVE RawEscapeStr(_)
RawEscapeStr(s) ==
    IF s = <<>> THEN <<>> ELSE RawEscapeChar(Head(s)) \o RawEscapeStr(Tail(s))

RECURSIVE CompactJson(_)
RECURSIVE CompactElems(_)
RECURSIVE CompactItems(_)

CompactElems(l) ==
    IF l = <<>> THEN <<>>
    ELSE CompactJson(Head(l)) \o (IF Len(l) > 1 THEN <<",">> ELSE <<>>)
         \o CompactElems(Tail(l))

CompactItems(items) ==
    IF items = <<>> THEN <<>>
    ELSE <<QUOTE>> \o RawEscapeStr(Head(items)[1]) \o <<QUOTE, ":">>
         \o CompactJson(Head(items)[2])
         \o (IF Len(items) > 1 THEN <<",">> ELSE <<>>)
         \o CompactItems(Tail(items))

CompactJson(v) ==
    CASE v[1] = "str" -> <<QUOTE>> \o RawEscapeStr(v[2]) \o <<QUOTE>>
      [] v[1] = "list" -> <<"[">> \o CompactElems(v[2]) \o <<"]">>
      [] v[1] = "dict" -> <<"{">> \o CompactItems(v[2]) \o <<"}">>
      [] OTHER -> dumps(v)

\* A frame that declares `declared` bytes in front of the text `payload`.
RawFrame(declared, payload) ==
    encode(S.ContentLength \o FormatInt(declared) \o S.CRLFCRLF \o payload)

\* A well-formed frame of the subject.
SubjectFrame(v) ==
    LET text == CompactJson(v) IN RawFrame(Utf8Len(text), text)

(***************************************************************************)
(* SpecFramer: the inputs                                                  *)
(***************************************************************************)
MaxSegs == 3
MaxCalls == 2

\* A document text with every kind of character the encoder treats specially,
\* and a line that reads like a header.
TrickyText == <<"a", EAcute, QUOTE, BSLASH>> \o S.ContentLength \o <<"3">> \o S.CRLFCRLF

\* Messages the harness builds: request and notification, with and without
\* params, and a dict literal in send_msg's key order.
HarnessMessages ==
    { BuildMessage(S.exit, None, None),
      BuildMessage(S.exit, JDict(<<>>), None),
      BuildMessage(S.shutdown, JDict(<<>>), JInt(4)),
      BuildMessage(T.m, JDict(<<<<S.text, JStr(TrickyText)>>>>), JInt(12)),
      JDict(<<<<S.jsonrpc, JStr(S.version)>>, <<S.id, JInt(1)>>, <<S.method, JStr(T.m)>>,
              <<S.params, JDict(<<<<S.processId, None>>>>)>>>>) }

Response(id, result) ==
    JDict(<<<<S.jsonrpc, JStr(S.version)>>, <<S.id, JInt(id)>>, <<K.result, result>>>>)

\* Messages the subject emits: responses (one with a two-byte character) and
\* a notification.
SubjectMessages ==
    { Response(1, None),
      Response(2, JStr(<<EAcute>>)),
      JDict(<<<<S.jsonrpc, JStr(S.version)>>, <<S.method, JStr(T.m)>>>>) }

\* Bytes that are no frame: a log line, and lines that read like a header.
NoiseTexts ==
    { <<"l", "o", "g", LF>>,
      S.ContentLength \o <<"2">> \o S.CRLFCRLF,
      S.ContentLength \o <<"9", "9">> \o S.CRLFCRLF }

Segments ==
    [kind : {"sent"}, msg : HarnessMessages]
    \cup [kind : {"frame"}, msg : SubjectMessages]
    \cup [kind : {"noise"}, text : NoiseTexts]
    \cup { \* the payload is JSON but no object
           [kind |-> "raw", declared |-> 3, text |-> <<"[", "7", "]">>],
           \* the payload is no JSON
           [kind |-> "raw", declared |-> 3, text |-> <<"{", "x", "}">>],
           \* the payload is no JSON and holds a two-byte character
           [kind |-> "raw", declared |-> 4, text |-> <<"{", EAcute, "}">>],
           \* truncated: fewer bytes than declared, and what is there is JSON
           [kind |-> "raw", declared |-> 40, text |-> <<"1", "2">>],
           \* truncated in the middle of a two-byte character
           [kind |-> "raw", declared |-> 4, text |-> <<QUOTE, "xC3">>] }

\* The bytes a segment puts on the subject's stdout.
SegBytes(seg) ==
    CASE seg.kind = "sent" -> Frame(seg.msg)
      [] seg.kind = "frame" -> SubjectFrame(seg.msg)
      [] seg.kind = "noise" -> encode(seg.text)
      [] seg.kind = "raw" -> RawFrame(seg.declared, seg.text)

(***************************************************************************)
(* SpecFramer: the actions                                                 *)
(***************************************************************************)
\* SpecRun at rest (for the specifications that do not run a subject).
RunAtRest ==
    /\ hpc = 0 /\ hstate = "none" /\ exc = "none"
    /\ sent = <<>> /\ wrote = 0 /\ stdinClosed = FALSE /\ captured = 0
    /\ docSize = 0 /\ mode = "none" /\ replySize = 0 /\ alive = FALSE /\ stdoutOpen = FALSE
    /\ inPipe = <<>> /\ outPipe = 0 /\ received = 0 /\ owed = 0

NoRun == script = "none" /\ RunAtRest

\* SpecVerdict at rest.
NoVerdict ==
    vpc = "none" /\ li = 0 /\ resp = <<>> /\ exitCode = -1 /\ vexc = "none"

InitFramer ==
    /\ NoRun
    /\ NoVerdict
    /\ segs = <<>>
    /\ raw = <<>>
    /\ output = <<>>
    /\ pos = 0
    /\ messages = <<>>
    /\ fpc = "emit"
    /\ returned = <<>>

\* One more segment goes on the wire: the subject writes it to its stdout,
\* or (kind "sent") the wire is looped back and carries just one frame that
\* the harness wrote.
Emit(seg) ==
    /\ fpc = "emit"
    /\ Len(segs) < MaxSegs
    /\ seg.kind = "sent" => segs = <<>>
    /\ \A i \in 1..Len(segs) : segs[i].kind # "sent"
    /\ segs' = Append(segs, seg)
    /\ raw' = raw \o SegBytes(seg)
    /\ UNCHANGED <<output, pos, messages, fpc, returned, runVars, verdictVars>>

\* stdout_output = proc.stdout.read().decode(), then the call of
\* parse_lsp_responses: messages = [], pos = 0.
Capture ==
    /\ fpc = "emit"
    /\ IF Decodable(raw)
       THEN /\ output' = decode(raw)
            /\ fpc' = "scan"
       ELSE /\ output' = output
            /\ fpc' = "UnicodeDecodeError"
    /\ pos' = 0
    /\ messages' = <<>>
    /\ UNCHANGED <<segs, raw, returned, runVars, verdictVars>>

\* One iteration of the while loop that reaches "pos = json_end".
ParseStep ==
    /\ fpc = "scan"
    /\ pos < Len(output)
    /\ LET r == LoopBody(output, pos, messages)
       IN  /\ ~r.brk
           /\ messages' = r.messages
           /\ pos' = r.pos
    /\ UNCHANGED <<segs, raw, output, fpc, returned, runVars, verdictVars>>

\* "if not match: break", then return messages.
ParseBreak ==
    /\ fpc = "scan"
    /\ pos < Len(output)
    /\ LoopBody(output, pos, messages).brk
    /\ fpc' = "done"
    /\ returned' = Append(returned, messages)
    /\ UNCHANGED <<segs, raw, output, pos, messages, runVars, verdictVars>>

\* The loop condition pos < len(output) fails, then return messages.
ParseReturn ==
    /\ fpc = "scan"
    /\ ~(pos < Len(output))
    /\ fpc' = "done"
    /\ returned' = Append(returned, messages)
    /\ UNCHANGED <<segs, raw, output, pos, messages, runVars, verdictVars>>

\* A call that finds the list of the call before it (as a list kept outside
\* the function would be).
CallAgain_keeps ==
    /\ fpc = "done"
    /\ Len(returned) < MaxCalls
    /\ pos' = 0
    /\ fpc' = "scan"
    /\ UNCHANGED <<segs, raw, output, messages, returned, runVars, verdictVars>>

\* One more call of parse_lsp_responses on the same output: messages = [],
\* pos = 0 (lines 18 and 20).
CallAgain ==
    /\ fpc = "done"
    /\ Len(returned) < MaxCalls
    /\ messages' = <<>>
    /\ pos' = 0
    /\ fpc' = "scan"
    /\ UNCHANGED <<segs, raw, output, returned, runVars, verdictVars>>

NextFramer ==
    \/ \E seg \in Segments : Emit(seg)
    \/ Capture
    \/ ParseStep
    \/ ParseBreak
    \/ ParseReturn
    \/ CallAgain

SpecFramer == InitFramer /\ [][NextFramer]_vars

(***************************************************************************)
(* Claims about the codec (SpecFramer)                                     *)
(***************************************************************************)
\* msg in messages
InMessages(msg) == \E i \in 1..Len(messages) : PyEq(messages[i], msg)

\* The wire was looped back: it carries exactly one frame the harness wrote.
LoopedBack == Len(segs) = 1 /\ segs[1].kind = "sent"

\* C1 (round trip): when the bytes that send_lsp_message / send_msg wrote for a
\* message m are decoded and handed to parse_lsp_responses, the decoding does
\* not raise and the list returned holds exactly one message, equal to m.
C1_RoundTrip ==
    LoopedBack =>
        /\ fpc # "UnicodeDecodeError"
        /\ fpc = "done" => (Len(messages) = 1 /\ PyEq(messages[1], segs[1].msg))

\* C1's case: the request whose params hold a quote, a backslash, a
\* non-ASCII character and a line that reads like a header went round.
C1_Witness ==
    /\ LoopedBack
    /\ fpc = "done"
    /\ segs[1].msg = BuildMessage(T.m, JDict(<<<<S.text, JStr(TrickyText)>>>>), JInt(12))
    /\ Len(messages) = 1
    /\ Len(output) > 99

\* The wire carries a valid frame, then noise, then a valid frame.
FrameNoiseFrame ==
    /\ Len(segs) = 3
    /\ segs[1].kind = "frame"
    /\ segs[2].kind = "noise"
    /\ segs[3].kind = "frame"

\* C2 (noise tolerance): for valid frames F1 and F2 and any noise N between
\* them, the list parse_lsp_responses returns for F1 + N + F2 holds the
\* message of F1 and the message of F2.
C2_NoiseTolerance ==
    (FrameNoiseFrame /\ fpc = "done") =>
        (InMessages(segs[1].msg) /\ InMessages(segs[3].msg))

(***************************************************************************)
(* SpecRun: the scripts.  A script is the sequence of its statements that  *)
(* touch the subject: send (send_lsp_message / send_msg), sleep            *)
(* (time.sleep), close (proc.stdin.close()), wait (proc.wait(timeout=2))   *)
(* and read (proc.stdout.read()).  id is <<>> where the call passes no     *)
(* msg_id (where the dict has no "id").                                    *)
(***************************************************************************)
SendStmt(method, id) == [op |-> "send", method |-> method, id |-> id]
SleepStmt == [op |-> "sleep", method |-> "", id |-> <<>>]
CloseStmt == [op |-> "close", method |-> "", id |-> <<>>]
WaitStmt == [op |-> "wait", method |-> "", id |-> <<>>]
ReadStmt == [op |-> "read", method |-> "", id |-> <<>>]

\* The handshake every scenario script starts with (lines 43-49).
Handshake ==
    << SendStmt("initialize", <<1>>), SleepStmt,
       SendStmt("initialized", <<>>), SleepStmt >>

\* (mutant) exit is written before shutdown
Teardown_exit_first(shutdown_id) ==
    << SendStmt("exit", <<>>), SendStmt("shutdown", <<shutdown_id>>),
       CloseStmt, WaitStmt, ReadStmt >>

\* The teardown of the scenario scripts with shutdown's msg_id.
Teardown(shutdown_id) ==
    << SendStmt("shutdown", <<shutdown_id>>), SendStmt("exit", <<>>),
       CloseStmt, WaitStmt, ReadStmt >>

Script_check_tekton ==
    << SendStmt("initialize", <<1>>), SleepStmt,
       SendStmt("initialized", <<>>), SleepStmt,
       SendStmt("textDocument/didOpen", <<>>), SleepStmt,
       CloseStmt, ReadStmt >>

Script_completion ==
    Handshake
    \o << SendStmt("textDocument/didOpen", <<>>), SleepStmt,
          SendStmt("textDocument/completion", <<2>>), SleepStmt >>
    \o Teardown(3)

\* (mutant) the second hover request reuses the id of the first
Script_hover_dupid ==
    Handshake
    \o << SendStmt("textDocument/didOpen", <<>>), SleepStmt,
          SendStmt("textDocument/hover", <<2>>), SleepStmt,
          SendStmt("textDocument/hover", <<2>>), SleepStmt >>
    \o Teardown(4)

Script_hover ==
    Handshake
    \o << SendStmt("textDocument/didOpen", <<>>), SleepStmt,
          SendStmt("textDocument/hover", <<2>>), SleepStmt,
          SendStmt("textDocument/hover", <<3>>), SleepStmt >>
    \o Teardown(4)

Script_definition ==
    Handshake
    \o << SendStmt("textDocument/didOpen", <<>>), SleepStmt,
          SendStmt("textDocument/didOpen", <<>>), SleepStmt,
          SendStmt("textDocument/definition", <<2>>), SleepStmt >>
    \o Teardown(3)

Script_formatting ==
    Handshake
    \o << SendStmt("textDocument/didOpen", <<>>), SleepStmt,
          SendStmt("textDocument/formatting", <<2>>), SleepStmt >>
    \o Teardown(3)

Script_codeactions ==
    Handshake
    \o << SendStmt("textDocument/didOpen", <<>>), SleepStmt,
          SendStmt("textDocument/codeAction", <<2>>), SleepStmt >>
    \o Teardown(3)

Script_symbols ==
    Handshake
    \o << SendStmt("textDocument/didOpen", <<>>), SleepStmt,
          SendStmt("textDocument/documentSymbol", <<2>>), SleepStmt >>
    \o Teardown(3)

ScenarioScripts ==
    {"test-completion", "test-hover", "test-definition", "test-formatting",
     "test-codeactions", "test-symbols"}
Scripts == {"check-tekton"} \cup ScenarioScripts

Statements(sc) ==
    CASE sc = "check-tekton" -> Script_check_tekton
      [] sc = "test-completion" -> Script_completion
      [] sc = "test-hover" -> Script_hover
      [] sc = "test-definition" -> Script_definition
      [] sc = "test-formatting" -> Script_formatting
      [] sc = "test-codeactions" -> Script_codeactions
      [] sc = "test-symbols" -> Script_symbols

(***************************************************************************)
(* SpecRun: pipes and subject.  A pipe holds a bounded number of units.    *)
(* Every message of the scripts is one unit, and all the messages of a     *)
(* script fit into the stdin pipe together; only the didOpen of            *)
(* check-tekton.py, which carries a file of any size, may be as large as   *)
(* the pipe.                                                               *)
(***************************************************************************)
StdinCap == 8
StdoutCap == 5
MaxReply == 2

\* How a subject may behave:
\*   "normal"  reads, answers, exits on the exit notification or at end of input
\*   "hang"    reads and answers, never exits and never closes its stdout
\*   "deaf"    never reads its stdin, never exits
\*   "crash"   like normal, and may exit at any moment
\*   "linger"  reads and answers, closes its stdout at end of input, never exits
Modes == {"normal", "hang", "deaf", "crash", "linger"}

\* The statement the harness is at.
Stmt == Statements(script)[hpc]
AtStmt(op) == hstate = "running" /\ hpc <= Len(Statements(script)) /\ Stmt.op = op

\* The size of the message of the send statement the harness is at.
Weight ==
    IF script = "check-tekton" /\ Stmt.method = "textDocument/didOpen"
    THEN docSize ELSE 1

\* Whether the subject answers a message with output: every request gets a
\* response, and a didOpen gets a publishDiagnostics notification.
Answered(stmt) == stmt.id # <<>> \/ stmt.method = "textDocument/didOpen"

\* The send statements of a script, in order: the k-th message the subject
\* receives is the k-th of them.
Sends(sc) == SelectSeq(Statements(sc), LAMBDA st : st.op = "send")

InitRun ==
    /\ segs = <<>> /\ raw = <<>> /\ output = <<>> /\ pos = 0
    /\ messages = <<>> /\ fpc = "none" /\ returned = <<>>
    /\ NoVerdict
    /\ script \in Scripts
    /\ hpc = 1
    /\ hstate = "running"
    /\ exc = "none"
    /\ sent = <<>>
    /\ wrote = 0
    /\ stdinClosed = FALSE
    /\ captured = 0
    /\ docSize \in {1, StdinCap}
    /\ (script # "check-tekton" => docSize = 1)
    /\ mode \in Modes
    /\ replySize \in 1..MaxReply
    /\ alive = TRUE
    /\ stdoutOpen = TRUE
    /\ inPipe = <<>>
    /\ outPipe = 0
    /\ received = 0
    /\ owed = 0

\* proc.stdin.write(...); proc.stdin.flush(): one unit goes into the pipe.  The
\* call blocks while the pipe is full, and returns once the whole message is in.
SendUnit ==
    /\ AtStmt("send")
    /\ alive
    /\ Len(inPipe) < StdinCap
    /\ inPipe' = Append(inPipe, wrote + 1 = Weight)
    /\ IF wrote + 1 = Weight
       THEN /\ sent' = Append(sent, [method |-> Stmt.method, id |-> Stmt.id])
            /\ wrote' = 0
            /\ hpc' = hpc + 1
       ELSE /\ wrote' = wrote + 1
            /\ UNCHANGED <<sent, hpc>>
    /\ UNCHANGED <<script, hstate, exc, stdinClosed, captured>>
    /\ UNCHANGED <<docSize, mode, replySize, alive, stdoutOpen, outPipe, received, owed>>
    /\ UNCHANGED <<framerVars, verdictVars>>

\* A failed write that is passed over: the script goes on to its next
\* statement.
SendBrokenPipe_swallowed ==
    /\ AtStmt("send")
    /\ ~alive
    /\ hpc' = hpc + 1
    /\ wrote' = 0
    /\ UNCHANGED <<script, hstate, exc, sent, stdinClosed, captured>>
    /\ UNCHANGED subjectVars
    /\ UNCHANGED <<framerVars, verdictVars>>

\* The write finds the read end of the pipe closed: BrokenPipeError, which no
\* script catches.
SendBrokenPipe ==
    /\ AtStmt("send")
    /\ ~alive
    /\ hstate' = "raised"
    /\ exc' = "BrokenPipeError"
    /\ UNCHANGED <<script, hpc, sent, wrote, stdinClosed, captured>>
    /\ UNCHANGED subjectVars
    /\ UNCHANGED <<framerVars, verdictVars>>

\* time.sleep(...)
Sleep ==
    /\ AtStmt("sleep")
    /\ hpc' = hpc + 1
    /\ UNCHANGED <<script, hstate, exc, sent, wrote, stdinClosed, captured>>
    /\ UNCHANGED subjectVars
    /\ UNCHANGED <<framerVars, verdictVars>>

\* proc.stdin.close()
CloseStdin ==
    /\ AtStmt("close")
    /\ stdinClosed' = TRUE
    /\ hpc' = hpc + 1
    /\ UNCHANGED <<script, hstate, exc, sent, wrote, captured>>
    /\ UNCHANGED subjectVars
    /\ UNCHANGED <<framerVars, verdictVars>>

\* proc.wait(timeout=2) returns: the subject has exited.
WaitReturns ==
    /\ AtStmt("wait")
    /\ ~alive
    /\ hpc' = hpc + 1
    /\ UNCHANGED <<script, hstate, exc, sent, wrote, stdinClosed, captured>>
    /\ UNCHANGED subjectVars
    /\ UNCHANGED <<framerVars, verdictVars>>

\* proc.wait(timeout=2) raises subprocess.TimeoutExpired: the subject has not
\* exited within the two seconds.  No script catches it.
WaitTimesOut ==
    /\ AtStmt("wait")
    /\ alive
    /\ hstate' = "raised"
    /\ exc' = "TimeoutExpired"
    /\ UNCHANGED <<script, hpc, sent, wrote, stdinClosed, captured>>
    /\ UNCHANGED subjectVars
    /\ UNCHANGED <<framerVars, verdictVars>>

\* proc.stdout.read() takes a unit out of the pipe.
ReadUnit ==
    /\ AtStmt("read")
    /\ outPipe > 0
    /\ outPipe' = outPipe - 1
    /\ captured' = captured + 1
    /\ UNCHANGED <<script, hpc, hstate, exc, sent, wrote, stdinClosed>>
    /\ UNCHANGED <<docSize, mode, replySize, alive, stdoutOpen, inPipe, received, owed>>
    /\ UNCHANGED <<framerVars, verdictVars>>

\* proc.stdout.read() returns: the pipe is empty and its write end is closed.
ReadReturns ==
    /\ AtStmt("read")
    /\ outPipe = 0
    /\ ~stdoutOpen
    /\ hstate' = "captured"
    /\ hpc' = hpc + 1
    /\ UNCHANGED <<script, exc, sent, wrote, stdinClosed, captured>>
    /\ UNCHANGED subjectVars
    /\ UNCHANGED <<framerVars, verdictVars>>

\* The subject is running and the harness has not ended.
SubjectRuns == hstate = "running" /\ alive

\* The subject reads a unit from its stdin; with a message's last unit it has
\* the message, and owes the answer to it.
SubjectReads ==
    /\ SubjectRuns
    /\ mode # "deaf"
    /\ owed = 0
    /\ inPipe # <<>>
    /\ inPipe' = Tail(inPipe)
    /\ IF Head(inPipe)
       THEN /\ received' = received + 1
            /\ owed' = IF stdoutOpen /\ Answered(Sends(script)[received + 1])
                       THEN replySize ELSE 0
       ELSE UNCHANGED <<received, owed>>
    /\ UNCHANGED harnessVars
    /\ UNCHANGED <<docSize, mode, replySize, alive, stdoutOpen, outPipe>>
    /\ UNCHANGED <<framerVars, verdictVars>>

\* The subject writes a unit of output; it blocks while the stdout pipe is full.
SubjectWrites ==
    /\ SubjectRuns
    /\ owed > 0
    /\ stdoutOpen
    /\ outPipe < StdoutCap
    /\ outPipe' = outPipe + 1
    /\ owed' = owed - 1
    /\ UNCHANGED harnessVars
    /\ UNCHANGED <<docSize, mode, replySize, alive, stdoutOpen, inPipe, received>>
    /\ UNCHANGED <<framerVars, verdictVars>>

\* The subject has read the exit notification.
GotExit ==
    \E k \in 1..received : Sends(script)[k].method = "exit"

\* The subject is at the end of its input.
AtEndOfInput == stdinClosed /\ inPipe = <<>>

\* The subject exits: its ends of the pipes close.
SubjectExits ==
    /\ SubjectRuns
    /\ \/ mode = "crash"
       \/ mode = "normal" /\ owed = 0 /\ (GotExit \/ AtEndOfInput)
    /\ alive' = FALSE
    /\ stdoutOpen' = FALSE
    /\ inPipe' = <<>>
    /\ owed' = 0
    /\ UNCHANGED harnessVars
    /\ UNCHANGED <<docSize, mode, replySize, outPipe, received>>
    /\ UNCHANGED <<framerVars, verdictVars>>

\* The subject closes its stdout at the end of its input and stays alive.
SubjectClosesStdout ==
    /\ SubjectRuns
    /\ mode = "linger"
    /\ stdoutOpen
    /\ owed = 0
    /\ AtEndOfInput
    /\ stdoutOpen' = FALSE
    /\ UNCHANGED harnessVars
    /\ UNCHANGED <<docSize, mode, replySize, alive, inPipe, outPipe, received, owed>>
    /\ UNCHANGED <<framerVars, verdictVars>>

NextRun ==
    \/ SendUnit
    \/ SendBrokenPipe
    \/ Sleep
    \/ CloseStdin
    \/ WaitReturns
    \/ WaitTimesOut
    \/ ReadUnit
    \/ ReadReturns
    \/ SubjectReads
    \/ SubjectWrites
    \/ SubjectExits
    \/ SubjectClosesStdout

SpecRun == InitRun /\ [][NextRun]_vars

(***************************************************************************)
(* Claims about a run (SpecRun)                                            *)
(***************************************************************************)
\* The messages sent that carry an id: the requests.
Requests == SelectSeq(sent, LAMBDA m : m.id # <<>>)

NotificationMethods == {"initialized", "textDocument/didOpen", "exit"}

\* C4 (id uniqueness): in every session the ids of the requests sent start at
\* 1 and strictly increase in send order, hence are pairwise distinct; the
\* notifications initialized, didOpen and exit carry no id, and every other
\* message carries one.
C4_IdUniqueness ==
    /\ Requests # <<>> => Requests[1].id = <<1>>
    /\ \A i, j \in 1..Len(Requests) : i < j => Requests[i].id[1] < Requests[j].id[1]
    /\ \A i \in 1..Len(sent) : (sent[i].method \in NotificationMethods) <=> (sent[i].id = <<>>)

\* C4's case: the hover script has sent its four requests and three
\* notifications.
C4_Witness ==
    /\ script = "test-hover"
    /\ Len(sent) = 7
    /\ Len(Requests) = 4

\* C5 (the harness never hangs): whatever the subject does, a harness that has
\* not ended is never in a state that nothing can end: each blocking step
\* either completes or is cut short by its upper bound.
C5_NeverHangs == hstate = "running" => ENABLED NextRun

\* C6 (force-kill): no harness run ends, by a timed-out wait or otherwise,
\* while the subject it spawned is still alive.
C6_ForceKill == hstate \in {"captured", "raised"} => ~alive

\* C7 (orderly shutdown): the input pipe is closed only after a shutdown
\* request and then an exit notification were written to it, in every entry
\* point.
C7_OrderlyShutdown ==
    stdinClosed =>
        \E i, j \in 1..Len(sent) :
            i < j /\ sent[i].method = "shutdown" /\ sent[j].method = "exit"

\* The step of the linear lifecycle a message belongs to.
Phase(m) ==
    CASE m.method = "initialize" -> 1
      [] m.method = "initialized" -> 2
      [] m.method = "textDocument/didOpen" -> 3
      [] m.method = "shutdown" -> 5
      [] m.method = "exit" -> 6
      [] OTHER -> 4

\* The steps that may directly follow a step.
FollowUps(ph) ==
    CASE ph = 1 -> {2}
      [] ph = 2 -> {3, 4}
      [] ph = 3 -> {3, 4}
      [] ph = 4 -> {4, 5}
      [] ph = 5 -> {6}
      [] ph = 6 -> {}

\* What was written so far is the beginning of: initialize, initialized,
\* didOpen*, scenario request(s), shutdown, exit.
LinearSoFar ==
    /\ sent # <<>> => Phase(sent[1]) = 1
    /\ \A i \in 1..(Len(sent) - 1) : Phase(sent[i + 1]) \in FollowUps(Phase(sent[i]))

\* The output is read only with the input pipe closed.
ReadsAfterClose ==
    (AtStmt("read") \/ captured > 0 \/ hstate = "captured") => stdinClosed

\* C8 (linear lifecycle): the messages written are, in this order, initialize,
\* initialized, zero or more didOpen, the scenario request(s), shutdown, exit,
\* no step out of order or repeated; nothing is written once the input pipe is
\* closed; and the output is read only after the input pipe is closed.
\* (Whether shutdown and exit were written at all before the close is C7.)
C8_LinearLifecycle ==
    /\ [](LinearSoFar /\ ReadsAfterClose)
    /\ [][stdinClosed => (sent' = sent /\ Len(inPipe') <= Len(inPipe))]_vars

\* C8's case: the definition script ran to the capture, with its two didOpen.
C8_Witness ==
    /\ script = "test-definition"
    /\ hstate = "captured"
    /\ Len(sent) = 7
    /\ captured > 0

(***************************************************************************)
(* SpecVerdict: Python operations the validators use                       *)
(***************************************************************************)
UpperCase == <<"A", "B", "C", "D", "E", "F", "G", "H", "I", "J", "K", "L", "M",
               "N", "O", "P", "Q", "R", "S", "T", "U", "V", "W", "X", "Y", "Z">>
LowerCase == <<"a", "b", "c", "d", "e", "f", "g", "h", "i", "j", "k", "l", "m",
               "n", "o", "p", "q", "r", "s", "t", "u", "v", "w", "x", "y", "z">>

\* str.lower()
lower(s) ==
    [i \in 1..Len(s) |->
        IF \E k \in 1..26 : UpperCase[k] = s[i]
        THEN LowerCase[CHOOSE k \in 1..26 : UpperCase[k] = s[i]]
        ELSE s[i]]

\* repr(v), and str(v): a str is itself under str() and quoted under repr().
RECURSIVE repr(_)
RECURSIVE ReprElems(_)
ReprElems(l) ==
    IF l = <<>> THEN <<>>
    ELSE repr(Head(l)) \o (IF Len(l) > 1 THEN <<",", " ">> ELSE <<>>) \o ReprElems(Tail(l))
repr(v) ==
    CASE v[1] = "null" -> <<"N", "o", "n", "e">>
      [] v[1] = "bool" ->
            IF v[2] THEN <<"T", "r", "u", "e">> ELSE <<"F", "a", "l", "s", "e">>
      [] v[1] = "int" -> dumps(v)
      [] v[1] = "str" -> <<"'">> \o v[2] \o <<"'">>
      [] v[1] = "list" -> <<"[">> \o ReprElems(v[2]) \o <<"]">>
      [] v[1] = "dict" ->
            <<"{">> \o ReprElems([i \in 1..Len(v[2]) |-> JStr(v[2][i][1])]) \o <<"}">>
str(v) == IF IsStr(v) THEN v ELSE JStr(repr(v))

\* w in c, for a str w: a substring of a str, an element of a list, a key of a
\* dict; TypeError for any other c.
InRaises(c) == c[1] \in {"null", "bool", "int"}
In(w, c) ==
    CASE c[1] = "str" -> Contains(c[2], w)
      [] c[1] = "list" -> \E i \in 1..Len(c[2]) : PyEq(c[2][i], JStr(w))
      [] c[1] = "dict" -> HasKey(c, w)

\* What a validator ends in: sys.exit(0), sys.exit(1), or an exception that
\* nothing catches.
Exceptions == {"AttributeError", "TypeError", "KeyError"}
IsExc(x) == x \in Exceptions

\* The condition every validator starts with:
\*   response and "result" in response
HasResult(r) == Truthy(r) /\ HasKey(r, K.result)
\*   response and "result" in response and response["result"]
HasTruthyResult(r) == HasResult(r) /\ Truthy(Item(r, K.result))

(***************************************************************************)
(* test-hover.py, lines 115-164                                            *)
(***************************************************************************)
\* One of the two checks (lines 118-136 and 139-157): "ok", "fail" (success =
\* False) or the exception raised.
HoverCheck(hover, keywords) ==
    IF HasTruthyResult(hover)
    THEN LET result == Item(hover, K.result)
         IN  IF ~IsDict(result) THEN "AttributeError"     \* result.get
             ELSE LET content == Get(result, K.contents, JDict(<<>>))
                      value == IF IsDict(content)
                               THEN Get(content, K.value, JStr(<<>>))
                               ELSE str(content)
                  IN  IF ~IsStr(value)
                      THEN (IF IsList(value) THEN "AttributeError" ELSE "TypeError")
                      ELSE IF \E k \in keywords : Contains(lower(value[2]), k)
                           THEN "ok" ELSE "fail"
    ELSE "fail"

Validate_hover(r) ==
    LET tasks == HoverCheck(r[1], {W.tasks, W.pipelinetask})
        pipeline == HoverCheck(r[2], {W.pipeline})
    IN  IF IsExc(tasks) THEN tasks
        ELSE IF IsExc(pipeline) THEN pipeline
        ELSE IF tasks = "ok" /\ pipeline = "ok" THEN "0" ELSE "1"

(***************************************************************************)
(* test-definition.py, lines 128-164                                       *)
(***************************************************************************)
\* Lines 137-142 and 144-149: the uri names the Task file, or success = False.
UriCheck(uri) ==
    IF InRaises(uri) THEN "TypeError"
    ELSE IF In(W.build_task_yaml, uri) THEN "0" ELSE "1"

Validate_definition(r) ==
    IF HasTruthyResult(r[1])
    THEN LET result == Item(r[1], K.result)
         IN  IF IsDict(result) THEN UriCheck(Get(result, K.uri, JStr(<<>>)))
             ELSE IF IsList(result) /\ Len(result[2]) > 0
             THEN (IF ~IsDict(result[2][1]) THEN "AttributeError"
                   ELSE UriCheck(Get(result[2][1], K.uri, JStr(<<>>))))
             ELSE "1"
    ELSE "0"      \* lines 153-157: noted, success stays True

(***************************************************************************)
(* test-formatting.py, lines 107-151                                       *)
(***************************************************************************)
Validate_formatting(r) ==
    IF HasResult(r[1])
    THEN LET result == Item(r[1], K.result)
         IN  IF IsNone(result) THEN "0"
             ELSE IF IsList(result)
             THEN IF Len(result[2]) > 0
                  THEN LET edit == result[2][1]
                           new_text == Get(edit, K.newText, JStr(<<>>))
                       IN  IF ~IsDict(edit) THEN "AttributeError"
                           ELSE IF InRaises(new_text) THEN "TypeError"
                           ELSE IF ~IsStr(new_text) THEN "AttributeError"  \* .split
                           ELSE IF In(W.apiVersion, new_text) /\ In(W.kind, new_text)
                                THEN "0" ELSE "1"
                  ELSE "0"
             ELSE "1"
    ELSE "1"

(***************************************************************************)
(* test-codeactions.py, lines 123-172                                      *)
(***************************************************************************)
Validate_codeactions(r) ==
    IF HasResult(r[1])
    THEN LET result == Item(r[1], K.result)
         IN  IF IsNone(result) THEN "1"
             ELSE IF IsList(result)
             THEN IF Len(result[2]) > 0
                  THEN LET action == result[2][1]
                           title == Get(action, K.title, JStr(<<>>))
                       IN  IF ~IsDict(action) THEN "AttributeError"
                           ELSE IF InRaises(title) THEN "TypeError"
                           \* lines 143-148: a title that does not match leaves
                           \* success True
                           ELSE IF Truthy(Get(action, K.edit, None)) THEN "0" ELSE "1"
                  ELSE "1"
             ELSE "1"
    ELSE "1"

(***************************************************************************)
(* test-completion.py, lines 104-128                                       *)
(***************************************************************************)
\* A list of required labels that lacks three of them.
expected_short == <<K.name>>

\* expected = ["name", "namespace", "labels", "annotations"]
expected == <<K.name, W.namespace, W.labels, W.annotations>>

Validate_completion(r) ==
    IF HasResult(r[1])
    THEN LET completions == Item(r[1], K.result)
         IN  IF IsList(completions)
             THEN IF \E i \in 1..Len(completions[2]) : ~IsDict(completions[2][i])
                  THEN "TypeError"        \* c["label"] on what is no dict
                  ELSE IF \E i \in 1..Len(completions[2]) :
                              ~HasKey(completions[2][i], K.label)
                  THEN "KeyError"
                  ELSE LET labels == JList([i \in 1..Len(completions[2]) |->
                                             Item(completions[2][i], K.label)])
                           found == SelectSeq(expected, LAMBDA e : In(e, labels))
                       IN  IF Len(found) = Len(expected) THEN "0" ELSE "1"
             ELSE "1"
    ELSE "1"

(***************************************************************************)
(* test-symbols.py, lines 116-192                                          *)
(***************************************************************************)
\* [c.get("name", "") for c in items] raises unless items is a list of dicts
\* or an empty str or dict; "none" when it does not raise.
IterRaises(items) ==
    CASE IsList(items) ->
            IF \E i \in 1..Len(items[2]) : ~IsDict(items[2][i])
            THEN "AttributeError" ELSE "none"
      [] items[1] \in {"str", "dict"} ->
            IF Len(items[2]) > 0 THEN "AttributeError" ELSE "none"
      [] OTHER -> "TypeError"
Elems(items) == IF IsList(items) THEN items[2] ELSE <<>>
NameOf(c) == Get(c, K.name, JStr(<<>>))

\* any(w in name for name in names): "True", "False", or the TypeError of the
\* first name that is evaluated and is no container.
AnyIn(w, names) ==
    LET hit == {i \in 1..Len(names) : InRaises(names[i]) \/ In(w, names[i])}
    IN  IF hit = {} THEN "False"
        ELSE LET i == CHOOSE k \in hit : \A j \in hit : k <= j
             IN  IF InRaises(names[i]) THEN "TypeError" ELSE "True"

\* Lines 168-181: the loop over spec_children that looks at the tasks array.
TasksCheck(spec_children) ==
    LET hit == {i \in 1..Len(spec_children) :
                    LET n == NameOf(spec_children[i])
                    IN  InRaises(n) \/ (In(W.tasks, n) /\ In(W.two, n))}
    IN  IF hit = {} THEN "ok"
        ELSE LET i == CHOOSE k \in hit : \A j \in hit : k <= j
                 task_items == Get(spec_children[i], K.children, JList(<<>>))
                 task_names == JList([k \in 1..Len(Elems(task_items)) |->
                                         NameOf(Elems(task_items)[k])])
             IN  IF InRaises(NameOf(spec_children[i])) THEN "TypeError"
                 ELSE IF ~Truthy(task_items) THEN "ok"
                 ELSE IF IterRaises(task_items) # "none" THEN IterRaises(task_items)
                 ELSE IF In(W.build, task_names) /\ In(W.test, task_names)
                      THEN "ok" ELSE "fail"

\* Lines 141-181: find spec among the children and check what is under it.
SpecCheck(children) ==
    LET hit == {i \in 1..Len(children) :
                    PyEq(Get(children[i], K.name, None), JStr(W.spec))}
    IN  IF hit = {} THEN "ok"
        ELSE LET spec == children[CHOOSE k \in hit : \A j \in hit : k <= j]
                 spec_children == Get(spec, K.children, JList(<<>>))
                 spec_child_names == [k \in 1..Len(Elems(spec_children)) |->
                                         NameOf(Elems(spec_children)[k])]
                 has_params == AnyIn(S.params, spec_child_names)
                 has_tasks == AnyIn(W.tasks, spec_child_names)
                 tasks == TasksCheck(Elems(spec_children))
             IN  IF IterRaises(spec_children) # "none" THEN IterRaises(spec_children)
                 ELSE IF IsExc(has_params) THEN has_params
                 ELSE IF IsExc(has_tasks) THEN has_tasks
                 ELSE IF IsExc(tasks) THEN tasks
                 ELSE IF has_params = "True" /\ has_tasks = "True" /\ tasks = "ok"
                      THEN "ok" ELSE "fail"

Validate_symbols(r) ==
    IF HasTruthyResult(r[1])
    THEN LET result == Item(r[1], K.result)
         IN  IF IsList(result) /\ Len(result[2]) > 0
             THEN LET root == result[2][1]
                      children == Get(root, K.children, JList(<<>>))
                      rest == SpecCheck(children[2])
                  IN  IF ~IsDict(root) THEN "AttributeError"
                      ELSE IF InRaises(NameOf(root)) THEN "TypeError"
                      ELSE IF ~Truthy(children) THEN "1"
                      ELSE IF IterRaises(children) # "none" THEN IterRaises(children)
                      ELSE IF IsExc(rest) THEN rest
                      ELSE IF In(W.Pipeline, NameOf(root)) /\ rest = "ok"
                           THEN "0" ELSE "1"
             ELSE "1"
    ELSE "1"

(***************************************************************************)
(* check-tekton.py, lines 79-89                                            *)
(***************************************************************************)
\* The body of "for diag in diagnostics" (lines 83-86): the exception it
\* raises, or "none".
DiagRaises(diag) ==
    IF ~IsDict(diag) THEN "TypeError"
    ELSE IF ~HasKey(diag, K.range) THEN "KeyError"
    ELSE IF ~IsDict(Item(diag, K.range)) THEN "TypeError"
    ELSE IF ~HasKey(Item(diag, K.range), K.start) THEN "KeyError"
    ELSE IF ~IsDict(Item(Item(diag, K.range), K.start)) THEN "TypeError"
    ELSE IF ~HasKey(Item(Item(diag, K.range), K.start), K.line) THEN "KeyError"
    ELSE IF Item(Item(Item(diag, K.range), K.start), K.line)[1] \notin {"int", "bool"}
         THEN "TypeError"
    ELSE IF Get(diag, K.severity, JInt(1))[1] \in {"list", "dict"} THEN "TypeError"
    ELSE IF ~HasKey(diag, K.message) THEN "KeyError"
    ELSE "none"

Validate_check_tekton(r) ==
    LET diagnostics == r[1]
    IN  IF Truthy(diagnostics)
        THEN IF ~IsList(diagnostics) THEN "TypeError"
             ELSE LET bad == {i \in 1..Len(diagnostics[2]) :
                                 DiagRaises(diagnostics[2][i]) # "none"}
                  IN  IF bad = {} THEN "1"
                      ELSE DiagRaises(diagnostics[2][CHOOSE k \in bad : \A j \in bad : k <= j])
        ELSE "0"

Validate(sc, r) ==
    CASE sc = "check-tekton" -> Validate_check_tekton(r)
      [] sc = "test-completion" -> Validate_completion(r)
      [] sc = "test-hover" -> Validate_hover(r)
      [] sc = "test-definition" -> Validate_definition(r)
      [] sc = "test-formatting" -> Validate_formatting(r)
      [] sc = "test-codeactions" -> Validate_codeactions(r)
      [] sc = "test-symbols" -> Validate_symbols(r)

(***************************************************************************)
(* SpecVerdict: what the scripts do with the parsed messages               *)
(***************************************************************************)
MaxMsgs == 3

\* Messages no script looks for: a notification with no diagnostics, a
\* request of the server to the client that carries id 2, a response with an
\* error member, and a JSON text that is no object.
Notification ==
    JDict(<<<<S.jsonrpc, JStr(S.version)>>, <<S.method, JStr(W.publishDiagnostics)>>,
            <<S.params, JDict(<<<<K.uri, JStr(T.other)>>,
                                <<K.diagnostics, JList(<<>>)>>>>)>>>>)
ServerRequest ==
    JDict(<<<<S.jsonrpc, JStr(S.version)>>, <<S.id, JInt(2)>>,
            <<S.method, JStr(T.configuration)>>, <<S.params, JDict(<<>>)>>>>)
ErrorResponse ==
    JDict(<<<<S.jsonrpc, JStr(S.version)>>, <<S.id, JInt(2)>>,
            <<T.error, JDict(<<<<K.message, JStr(T.other)>>>>)>>>>)
NoObject == JList(<<JInt(7)>>)
\* The response to initialize.
InitializeResponse == Response(1, JDict(<<>>))
CommonMessages ==
    {Notification, ServerRequest, ErrorResponse, NoObject, InitializeResponse}

Named(name) == JDict(<<<<K.name, JStr(name)>>>>)
Node(name, children) == JDict(<<<<K.name, JStr(name)>>, <<K.children, JList(children)>>>>)
Labelled(label) == JDict(<<<<K.label, JStr(label)>>>>)
Diagnostic ==
    JDict(<<<<K.range, JDict(<<<<K.start, JDict(<<<<K.line, JInt(0)>>>>)>>>>)>>,
            <<K.severity, JInt(1)>>, <<K.message, JStr(T.other)>>>>)

\* The four metadata fields in another order, with an item that is not asked
\* for and one that comes twice.
ShuffledCompletions ==
    Response(2, JList(<<Labelled(W.annotations), Labelled(T.other), Labelled(W.labels),
                        Labelled(W.labels), Labelled(W.namespace), Labelled(K.name)>>))

\* What the subject may answer to the requests under test of a script.
Answers(sc) ==
    CASE sc = "check-tekton" ->
            { JDict(<<<<S.jsonrpc, JStr(S.version)>>, <<S.method, JStr(W.publishDiagnostics)>>,
                      <<S.params, JDict(<<<<K.diagnostics, JList(<<Diagnostic>>)>>>>)>>>>),
              JDict(<<<<S.jsonrpc, JStr(S.version)>>, <<S.method, JStr(W.publishDiagnostics)>>,
                      <<S.params, JDict(<<<<K.diagnostics,
                                            JList(<<Named(T.other)>>)>>>>)>>>>),
              Response(1, JDict(<<>>)) }
      [] sc = "test-completion" ->
            { Response(2, JList(<<Labelled(K.name), Labelled(W.namespace),
                                  Labelled(W.labels), Labelled(W.annotations)>>)),
              Response(2, JList(<<Labelled(K.name), Named(T.other)>>)),
              ShuffledCompletions,
              Response(2, JList(<<Labelled(W.labels), Labelled(K.name)>>)),
              Response(2, None) }
      [] sc = "test-hover" ->
            { Response(2, JDict(<<<<K.contents,
                                    JDict(<<<<K.value, JStr(T.doc_tasks)>>>>)>>>>)),
              Response(2, None),
              Response(3, JDict(<<<<K.contents, JStr(T.doc_pipeline)>>>>)),
              Response(3, None) }
      [] sc = "test-definition" ->
            { Response(2, JDict(<<<<K.uri, JStr(W.build_task_yaml)>>>>)),
              Response(2, JList(<<JDict(<<<<K.uri, JStr(T.other)>>>>)>>)),
              Response(2, None) }
      [] sc = "test-formatting" ->
            { Response(2, JList(<<JDict(<<<<K.newText, JStr(T.formatted)>>>>)>>)),
              Response(2, JList(<<JDict(<<<<K.newText, None>>>>)>>)),
              Response(2, None) }
      [] sc = "test-codeactions" ->
            { Response(2, JList(<<JDict(<<<<K.title, JStr(T.remove)>>,
                                           <<K.edit, Named(T.other)>>>>)>>)),
              Response(2, JList(<<JDict(<<<<K.title, JStr(T.other)>>>>)>>)),
              Response(2, JList(<<JDict(<<<<K.title, JStr(T.other)>>>>),
                                  JDict(<<<<K.title, JStr(T.remove)>>,
                                          <<K.edit, Named(T.other)>>>>)>>)),
              Response(2, None) }
      [] sc = "test-symbols" ->
            { Response(2, JList(<<Node(W.Pipeline,
                  <<Named(T.other),
                    Node(W.spec, <<Named(S.params),
                                   Node(T.tasks_2, <<Named(W.build), Named(W.test)>>)>>)>>)>>)),
              Response(2, JList(<<Node(W.Pipeline, <<Node(W.spec, <<Named(W.tasks)>>)>>)>>)),
              Response(2, None) }

Universe(sc) == CommonMessages \cup Answers(sc)

\* The phases of a script after parse_lsp_responses returned, in the order of
\* its text: test-completion prints the messages after the lookup,
\* check-tekton.py prints none.
Phases(sc) ==
    CASE sc = "check-tekton" -> <<"lookup", "validate">>
      [] sc = "test-completion" -> <<"lookup", "print", "validate">>
      [] OTHER -> <<"print", "lookup", "validate">>
PhaseAfter(sc, ph) ==
    LET i == CHOOSE k \in 1..Len(Phases(sc)) : Phases(sc)[k] = ph
    IN  Phases(sc)[i + 1]

\* The variables of the lookup before the loop: None for each response looked
\* for (two in test-hover), and for check-tekton.py the [] it returns when
\* the loop ends.
NothingFound(sc) ==
    CASE sc = "check-tekton" -> <<JList(<<>>)>>
      [] sc = "test-hover" -> <<None, None>>
      [] OTHER -> <<None>>

InitVerdict ==
    /\ script \in Scripts
    /\ RunAtRest
    /\ segs = <<>> /\ raw = <<>> /\ output = <<>> /\ pos = 0 /\ fpc = "done"
    /\ \E n \in 0..MaxMsgs : messages \in [1..n -> Universe(script)]
    /\ returned = <<messages>>
    /\ vpc = Phases(script)[1]
    /\ li = 0
    /\ resp = NothingFound(script)
    /\ exitCode = -1
    /\ vexc = "none"

\* An exception nothing catches ends the interpreter with status 1.
Raise(e) ==
    /\ vpc' = "exited"
    /\ vexc' = e
    /\ exitCode' = 1
    /\ UNCHANGED <<li, resp>>

\* for i, msg in enumerate(messages): msg.get('method', ...), print
PrintStep ==
    /\ vpc = "print"
    /\ li < Len(messages)
    /\ IF IsDict(messages[li + 1])
       THEN /\ li' = li + 1
            /\ UNCHANGED <<vpc, resp, exitCode, vexc>>
       ELSE Raise("AttributeError")
    /\ UNCHANGED <<framerVars, runVars>>

PrintDone ==
    /\ vpc = "print"
    /\ li = Len(messages)
    /\ vpc' = PhaseAfter(script, "print")
    /\ li' = 0
    /\ UNCHANGED <<resp, exitCode, vexc, framerVars, runVars>>

\* A test of the lookup that takes any message that carries an id.
Matches_anyid(msg, id) == HasKey(msg, S.id)

\* The test of the lookup: msg.get("id") == 2
Matches(msg, id) == PyEq(Get(msg, S.id, None), JInt(id))

\* One iteration of "for msg in messages" in a scenario script:
\*   if msg.get("id") == 2: response = msg; break
\* and in test-hover, without a break,
\*   if msg.get("id") == 2: ... elif msg.get("id") == 3: ...
LookupStep ==
    /\ vpc = "lookup"
    /\ script \in ScenarioScripts
    /\ li < Len(messages)
    /\ LET msg == messages[li + 1]
       IN  IF ~IsDict(msg) THEN Raise("AttributeError")
           ELSE IF Matches(msg, 2)
           THEN /\ resp' = [resp EXCEPT ![1] = msg]
                /\ IF script = "test-hover"
                   THEN li' = li + 1 /\ vpc' = vpc
                   ELSE li' = 0 /\ vpc' = PhaseAfter(script, "lookup")
                /\ UNCHANGED <<exitCode, vexc>>
           ELSE IF script = "test-hover" /\ Matches(msg, 3)
           THEN /\ resp' = [resp EXCEPT ![2] = msg]
                /\ li' = li + 1
                /\ UNCHANGED <<vpc, exitCode, vexc>>
           ELSE /\ li' = li + 1
                /\ UNCHANGED <<vpc, resp, exitCode, vexc>>
    /\ UNCHANGED <<framerVars, runVars>>

\* A loop that does not return at the first notification: each one overwrites
\* what the one before it gave.
LookupDiagnostics_last ==
    /\ vpc = "lookup"
    /\ script = "check-tekton"
    /\ li < Len(messages)
    /\ LET msg == messages[li + 1]
           params == Get(msg, S.params, JDict(<<>>))
       IN  IF ~IsDict(msg) THEN Raise("AttributeError")
           ELSE IF PyEq(Get(msg, S.method, None), JStr(W.publishDiagnostics))
           THEN IF ~IsDict(params) THEN Raise("AttributeError")
                ELSE /\ resp' = <<Get(params, K.diagnostics, JList(<<>>))>>
                     /\ li' = li + 1
                     /\ UNCHANGED <<vpc, exitCode, vexc>>
           ELSE /\ li' = li + 1
                /\ UNCHANGED <<vpc, resp, exitCode, vexc>>
    /\ UNCHANGED <<framerVars, runVars>>

\* One iteration of the loop of validate_tekton_file:
\*   if msg.get("method") == "textDocument/publishDiagnostics":
\*       return msg.get("params", {}).get("diagnostics", [])
LookupDiagnostics ==
    /\ vpc = "lookup"
    /\ script = "check-tekton"
    /\ li < Len(messages)
    /\ LET msg == messages[li + 1]
           params == Get(msg, S.params, JDict(<<>>))
       IN  IF ~IsDict(msg) THEN Raise("AttributeError")
           ELSE IF PyEq(Get(msg, S.method, None), JStr(W.publishDiagnostics))
           THEN IF ~IsDict(params) THEN Raise("AttributeError")
                ELSE /\ resp' = <<Get(params, K.diagnostics, JList(<<>>))>>
                     /\ li' = 0
                     /\ vpc' = PhaseAfter(script, "lookup")
                     /\ UNCHANGED <<exitCode, vexc>>
           ELSE /\ li' = li + 1
                /\ UNCHANGED <<vpc, resp, exitCode, vexc>>
    /\ UNCHANGED <<framerVars, runVars>>

\* The loop ran out of messages.
LookupDone ==
    /\ vpc = "lookup"
    /\ li = Len(messages)
    /\ vpc' = PhaseAfter(script, "lookup")
    /\ li' = 0
    /\ UNCHANGED <<resp, exitCode, vexc, framerVars, runVars>>

\* The checks on what the lookup found, up to sys.exit.
Verdict ==
    /\ vpc = "validate"
    /\ LET v == Validate(script, resp)
       IN  IF IsExc(v) THEN Raise(v)
           ELSE /\ vpc' = "exited"
                /\ exitCode' = (IF v = "0" THEN 0 ELSE 1)
                /\ UNCHANGED <<li, resp, vexc>>
    /\ UNCHANGED <<framerVars, runVars>>

NextVerdict ==
    \/ PrintStep
    \/ PrintDone
    \/ LookupStep
    \/ LookupDiagnostics
    \/ LookupDone
    \/ Verdict

SpecVerdict == InitVerdict /\ [][NextVerdict]_vars

(***************************************************************************)
(* Properties of SpecVerdict                                               *)
(***************************************************************************)
\* A JSON-RPC response: an object with an id and no method.
IsResponse(m) == IsDict(m) /\ HasKey(m, S.id) /\ ~HasKey(m, S.method)
ResponsesWithId(id) ==
    {i \in 1..Len(messages) :
        IsResponse(messages[i]) /\ PyEq(Item(messages[i], S.id), JInt(id))}
\* The ids of the requests under test, in the order of the lookup's variables.
Targets(sc) == IF sc = "test-hover" THEN <<2, 3>> ELSE <<2>>
AtMostOnePerId == \A id \in 1..3 : Cardinality(ResponsesWithId(id)) <= 1

\* C3 (correlator correctness): when the lookup of a scenario script has run
\* over a list with at most one response per id, each variable of the lookup
\* holds the response with the id it looks for, and None when the list has no
\* such response.
C3_Correlator ==
    (script \in ScenarioScripts /\ vpc = "validate" /\ AtMostOnePerId) =>
        \A k \in 1..Len(resp) :
            LET rs == ResponsesWithId(Targets(script)[k])
            IN  IF rs = {} THEN IsNone(resp[k])
                ELSE resp[k] = messages[CHOOSE i \in rs : TRUE]

\* A response whose result is null or absent, and that reports no error.
NullResult(r) ==
    IsResponse(r) /\ ~HasKey(r, T.error) /\ IsNone(Get(r, K.result, None))
HoverKeywords == <<{W.tasks, W.pipelinetask}, {W.pipeline}>>

\* C9 (hover boundary): when test-hover has exited, one of the two hover
\* responses it found has a null result and the other is null too or passes
\* its check, the exit status is 0.
C9_HoverBoundary ==
    ( /\ script = "test-hover" /\ vpc = "exited" /\ vexc = "none"
      /\ \E k \in 1..2 : NullResult(resp[k])
      /\ \A k \in 1..2 :
            NullResult(resp[k]) \/ HoverCheck(resp[k], HoverKeywords[k]) = "ok" )
        => exitCode = 0

\* C10 (exit status): a scenario script that has exited on a capture with no
\* response to a request under test has a non-zero exit status.
C10_ExitStatus ==
    ( /\ script \in ScenarioScripts /\ vpc = "exited"
      /\ \E k \in 1..Len(Targets(script)) : ResponsesWithId(Targets(script)[k]) = {} )
        => exitCode # 0

\* The publishDiagnostics notifications of the capture, by position.
Published ==
    {i \in 1..Len(messages) :
        /\ IsDict(messages[i])
        /\ PyEq(Get(messages[i], S.method, None), JStr(W.publishDiagnostics))}

\* C11 (diagnostics verdict): when check-tekton.py has exited, a capture with
\* no publishDiagnostics notification at all has not ended in the Pass status
\* 0, and a capture whose first such notification carries an empty list has.
C11_DiagnosticsVerdict ==
    (script = "check-tekton" /\ vpc = "exited") =>
        IF Published = {} THEN exitCode # 0
        ELSE LET first == messages[CHOOSE i \in Published : \A j \in Published : i <= j]
             IN  (vexc = "none"
                  /\ PyEq(Get(Get(first, S.params, JDict(<<>>)), K.diagnostics, None),
                          JList(<<>>)))
                     => exitCode = 0

(***************************************************************************)
(* Further properties of SpecFramer                                        *)
(***************************************************************************)
\* A frame whose header declares more bytes than follow it.
Truncated(seg) == seg.kind = "raw" /\ seg.declared > Len(encode(seg.text))

\* The wire carries well-formed frames and then a truncated one.
EndsTruncated ==
    /\ Len(segs) >= 1
    /\ Truncated(segs[Len(segs)])
    /\ \A i \in 1..(Len(segs) - 1) : segs[i].kind = "frame"

\* C12 (truncated frame): when the buffer ends in a frame whose header
\* declares more bytes than are present, every message parse_lsp_responses
\* returns is the message of a frame before it: the truncated frame yields
\* none, whatever the bytes that are present.
C12_TruncatedFrame ==
    (EndsTruncated /\ fpc = "done") =>
        \A k \in 1..Len(messages) :
            \E i \in 1..(Len(segs) - 1) : PyEq(messages[k], segs[i].msg)

\* A frame that is whole (as many bytes as declared) and whose payload is no
\* JSON text.
Malformed(seg) ==
    /\ seg.kind = "raw"
    /\ seg.declared = Len(encode(seg.text))
    /\ ~loads(seg.text).ok

\* A well-formed frame of the subject whose payload is ASCII only.
AsciiFrame(seg) ==
    seg.kind = "frame" /\ Utf8Len(CompactJson(seg.msg)) = Len(CompactJson(seg.msg))

\* The wire carries one malformed frame among well-formed ASCII frames.
OneMalformed ==
    /\ Len(segs) >= 2
    /\ \E i \in 1..Len(segs) :
          /\ Malformed(segs[i])
          /\ \A j \in 1..Len(segs) : j # i => AsciiFrame(segs[j])

\* C13 (malformed frame policy): with one whole frame whose payload is no JSON
\* among valid frames, the decoding does not raise, and the list
\* parse_lsp_responses returns holds the message of every valid frame.
C13_MalformedPolicy ==
    OneMalformed =>
        /\ fpc # "UnicodeDecodeError"
        /\ fpc = "done" => \A j \in 1..Len(segs) : AsciiFrame(segs[j]) => InMessages(segs[j].msg)

(***************************************************************************)
(* Further properties of SpecVerdict                                       *)
(***************************************************************************)
\* C14 (garbled output never crashes the harness): whatever messages the
\* decoding of the subject's output returned, a script that has ended has
\* ended in sys.exit with its verdict, not in an exception nothing caught.
C14_NeverCrashes == vpc = "exited" => vexc = "none"

\* What a lookup by id alone selects, for the k-th request under test: the one
\* response with its id, or None.  It depends on which messages the capture
\* holds, not on where they stand.
Picked(k) ==
    LET rs == ResponsesWithId(Targets(script)[k])
    IN  IF rs = {} THEN None ELSE messages[CHOOSE i \in rs : TRUE]

\* The capture holds responses, at most one per id, and publishDiagnostics
\* notifications, in any order.
ResponsesAndNotifications ==
    /\ AtMostOnePerId
    /\ \A i \in 1..Len(messages) : IsResponse(messages[i]) \/ i \in Published

\* C15 (out-of-order tolerance): for a capture of responses (at most one per
\* id) and publishDiagnostics notifications, in whatever order they stand,
\* a scenario script that has exited has correlated to each request under
\* test the response with its id and ended with the verdict of the validator
\* on those responses: the outcome is a function of the set of messages.
C15_OutOfOrder ==
    (script \in ScenarioScripts /\ vpc = "exited" /\ ResponsesAndNotifications) =>
        LET picked == [k \in 1..Len(Targets(script)) |-> Picked(k)]
            v == Validate(script, picked)
        IN  /\ resp = picked
            /\ IF IsExc(v) THEN vexc = v /\ exitCode = 1
               ELSE vexc = "none" /\ exitCode = (IF v = "0" THEN 0 ELSE 1)

\* C15's case: the hover script passed on a capture where the response to
\* id 3 stands before the response to id 2, with a notification between them
\* and the response to id 1 absent or elsewhere.
C15_Witness ==
    /\ script = "test-hover" /\ vpc = "exited" /\ exitCode = 0
    /\ Len(messages) = 3
    /\ ResponsesWithId(3) = {1} /\ Published = {2} /\ ResponsesWithId(2) = {3}

\* The positions of the messages that carry a given id.
WithId(id) ==
    {i \in 1..Len(messages) : IsDict(messages[i]) /\ Matches(messages[i], id)}

\* C16 (first match wins): when the lookup of a scenario script has run over a
\* capture with one or more messages that carry the id of a request under
\* test, the script uses the first of them in stream order.
C16_FirstMatchWins ==
    (script \in ScenarioScripts /\ vpc = "validate") =>
        \A k \in 1..Len(Targets(script)) :
            LET ms == WithId(Targets(script)[k])
            IN  ms # {} => resp[k] = messages[CHOOSE i \in ms : \A j \in ms : i <= j]

\* The wire carries well-formed frames of the subject only.
OnlyFrames == Len(segs) >= 1 /\ \A i \in 1..Len(segs) : segs[i].kind = "frame"

\* C17 (exact frame extent on decode): for an output made of well-formed
\* frames, each declaring the number of UTF-8 bytes of its payload,
\* parse_lsp_responses takes exactly each payload and resumes exactly after
\* it: it returns the messages of the frames, one for one and in order, also
\* when a payload holds a character of more than one byte.
C17_ExactExtent ==
    (OnlyFrames /\ fpc = "done") =>
        /\ Len(messages) = Len(segs)
        /\ \A i \in 1..Len(segs) : PyEq(messages[i], segs[i].msg)

\* C18 (exact header on encode): in the bytes written for a message, the
\* decimal number of the Content-Length header equals the number of bytes
\* that follow the blank line, also when a string of the message holds a
\* non-ASCII character.
C18_ExactHeader ==
    LoopedBack =>
        LET h == Search(raw)
        IN  h.found /\ ParseInt(h.group1) = Len(raw) - h.end

\* C18's case: the bytes of the request whose text holds a two-byte
\* character are on the wire.
C18_Witness ==
    /\ LoopedBack
    /\ fpc = "emit"
    /\ segs[1].msg = BuildMessage(T.m, JDict(<<<<S.text, JStr(TrickyText)>>>>), JInt(12))
    /\ Contains(TrickyText, <<EAcute>>)
    /\ Len(raw) > 0

\* C19 (idempotence): every call of parse_lsp_responses on the same output
\* returns the list the first call returned, and no step of a call changes
\* the output it was handed.
C19_Idempotence ==
    /\ [](\A i \in 1..Len(returned) : returned[i] = returned[1])
    /\ [][(fpc \in {"scan", "done"}) => (output' = output)]_vars

\* C19's case: a second call has returned, on an output that yields messages.
C19_Witness == Len(returned) = 2 /\ fpc = "done" /\ Len(returned[2]) = 2

(***************************************************************************)
(* Further properties of SpecRun                                           *)
(***************************************************************************)
\* The harness is at a write to the input pipe that cannot succeed: the
\* subject has exited.
FailedWrite == hstate = "running" /\ AtStmt("send") /\ ~alive

RemovesUnknownField(action) ==
    /\ IsDict(action)
    /\ IsStr(Get(action, K.title, None))
    /\ Contains(Get(action, K.title, None)[2], W.Remove)
    /\ Contains(Get(action, K.title, None)[2], W.unknownField)
    /\ Truthy(Get(action, K.edit, None))

\* The response holds such an action, at whatever position of its result.
OffersRemoval(r) ==
    /\ HasResult(r)
    /\ IsList(Item(r, K.result))
    /\ \E i \in 1..Len(Item(r, K.result)[2]) : RemovesUnknownField(Item(r, K.result)[2][i])

\* C21 (code action verdict): when test-codeactions.py has exited with its
\* verdict, the exit status is 0 exactly when the response it correlated to
\* the codeAction request holds, at some position, an action whose title
\* matches the remove-unknownField pattern and that carries an edit.
C21_CodeActionVerdict ==
    (script = "test-codeactions" /\ vpc = "exited" /\ vexc = "none") =>
        (exitCode = 0 <=> OffersRemoval(resp[1]))

\* The labels a completion response must hold.
RequiredLabels == {K.name, W.namespace, W.labels, W.annotations}

\* The set of labels of the items of a response holds every required label.
HoldsRequiredLabels(r) ==
    /\ HasResult(r)
    /\ IsList(Item(r, K.result))
    /\ \A e \in RequiredLabels :
          \E i \in 1..Len(Item(r, K.result)[2]) :
              /\ IsDict(Item(r, K.result)[2][i])
              /\ PyEq(Get(Item(r, K.result)[2][i], K.label, None), JStr(e))

\* C22 (completion verdict): when test-completion.py has exited with its
\* verdict, the exit status is 0 exactly when the set of labels in the
\* response it correlated to the completion request is a superset of
\* {name, namespace, labels, annotations}, whatever the order of the items
\* and whatever items come in addition or twice.
C22_CompletionVerdict ==
    (script = "test-completion" /\ vpc = "exited" /\ vexc = "none") =>
        (exitCode = 0 <=> HoldsRequiredLabels(resp[1]))

\* C22's case: the script passed on the response whose items are out of
\* order, with one item more and one twice.
C22_Witness ==
    /\ script = "test-completion" /\ vpc = "exited" /\ exitCode = 0
    /\ resp = <<ShuffledCompletions>>

\* C23 (notification lookup): when the loop of validate_tekton_file has
\* returned, what it returned is the diagnostics list of the first
\* textDocument/publishDiagnostics notification of the capture, and the empty
\* list when the capture holds none; the notifications after the first and
\* the other messages do not enter into it.
C23_NotificationLookup ==
    (script = "check-tekton" /\ vpc = "validate") =>
        resp[1] =
            IF Published = {} THEN JList(<<>>)
            ELSE LET first == messages[CHOOSE i \in Published : \A j \in Published : i <= j]
                 IN  Get(Get(first, S.params, JDict(<<>>)), K.diagnostics, JList(<<>>))

\* C23's case: the first notification stands after another message and
\* carries a diagnostic, and a later notification carries an empty list.
C23_Witness ==
    /\ script = "check-tekton" /\ vpc = "validate"
    /\ Published = {2, 3}
    /\ resp = <<JList(<<Diagnostic>>)>>
    /\ messages[3] = Notification

\* The harness is in a call that waits on the subject: a write to a full
\* stdin pipe, or proc.wait.
HarnessBlocked ==
    \/ AtStmt("send") /\ alive /\ Len(inPipe) = StdinCap
    \/ AtStmt("wait") /\ alive

\* The subject has output to write and its stdout pipe is full.
SubjectBlockedOnStdout ==
    alive /\ stdoutOpen /\ owed > 0 /\ outPipe = StdoutCap

\* C24 (no pipe deadlock): in no reachable state is the harness blocked, in a
\* write to stdin or in the wait for the subject's exit, while the subject is
\* blocked in a write to a stdout pipe that the harness is not reading.
C24_NoPipeDeadlock ==
    ~(HarnessBlocked /\ SubjectBlockedOnStdout /\ ~AtStmt("read"))

\* The while loop of parse_lsp_responses run to its end from position p with
\* the list msgs: the list at "return messages".
RECURSIVE WhileLoop(_, _, _)
WhileLoop(out, p, msgs) ==
    IF ~(p < Len(out)) THEN msgs
    ELSE LET r == LoopBody(out, p, msgs)
         IN  IF r.brk THEN r.messages ELSE WhileLoop(out, r.pos, r.messages)

\* parse_lsp_responses as a function of its argument.
parse_lsp_responses(out) == WhileLoop(out, 0, <<>>)

\* Whether the sequence s is a prefix of the sequence t.
IsPrefix(s, t) == Len(s) <= Len(t) /\ SubSeq(t, 1, Len(s)) = s

\* C25 (safe on a growing buffer): the list parse_lsp_responses returns for a
\* buffer B is a prefix of the list it returns for every extension B + S of
\* it: a message once returned is returned again, at the same place, when
\* more of the output has come.
C25_GrowingBuffer ==
    (fpc = "done" /\ Len(returned) = 1) =>
        \A n \in 0..Len(output) :
            IsPrefix(parse_lsp_responses(SubSeq(output, 1, n)), returned[1])

\* C26 (decoder progress): an iteration of the scan loop runs only while the
\* position is inside the buffer and moves the position forward by at least
\* the length of the header it matched, so that a buffer of n characters is
\* scanned in at most n iterations and the loop terminates; the payload
\* region of the iteration starts at or after the position, where the region
\* before it ended, and ends at the new position; and the message of the
\* region, if any, goes to the end of the list.
C26_DecoderProgress ==
    [][(fpc = "scan" /\ fpc' = "scan") =>
        LET match == Search(Slice(output, pos, Len(output)))
            header == Len(S.ContentLength) + Len(match.group1) + Len(S.CRLFCRLF)
            region == Slice(output, pos' - ParseInt(match.group1), pos')
        IN  /\ pos < Len(output)
            /\ pos' >= pos + header
            /\ pos' - ParseInt(match.group1) >= pos + header
            /\ IF loads(region).ok
               THEN messages' = Append(messages, loads(region).val)
               ELSE messages' = messages]_vars

\* C26's case: the loop has gone round twice, with a message each time, and
\* has more of the buffer before it.
C26_Witness ==
    /\ fpc = "scan"
    /\ Len(messages) = 2
    /\ 0 < pos /\ pos < Len(output)

====
